---- MODULE Spec2Model ----
(***************************************************************************)
(* Jump-point-search A* on a uniform-cost 8-connected grid, as implemented *)
(* by astar_compute and astar_unopt_compute in AStar.c.                    *)
(*                                                                         *)
(* Costs.  Every g-score and priority the program computes is a sum of     *)
(* integers and of lengths k*sqrt(2) of diagonal rays, so a cost is the    *)
(* pair <<a, b>> standing for the real number a + b*sqrt(2).  Comparison   *)
(* and the double-to-int conversion are computed exactly on that pair;     *)
(* rounding of the C doubles is not modelled.                              *)
(*                                                                         *)
(* Queue.  IndexPriorityQueue.h is not among the sources.  The queue is    *)
(* the map node -> priority, and findMin may return any entry of least     *)
(* priority (the tie-break of the heap is unspecified).                    *)
(***************************************************************************)
EXTENDS Integers, Sequences, FiniteSets, TLC

VARIABLES
    boundX,     \* int boundX: width of the grid
    boundY,     \* int boundY: height of the grid
    grid,       \* const short *grid, index -> 0 (blocked) or 1 (walkable)
    start,      \* int start
    end,        \* int end: the goal
    algo,       \* which entry point is running: "jps" or "unopt"
    pc,         \* "idle", "call", "loop", "record", "done"
    open,       \* queue *open: node -> priority
    closed,     \* char closed[size]
    gScores,    \* double gScores[size], defined on the entries written so far
    cameFrom,   \* int cameFrom[size], defined on the entries written so far
    solLength,  \* int *solLength
    rv,         \* int *rv of recordSolution
    target,     \* int target of recordSolution
    cur,        \* int i of recordSolution
    result,     \* "none" (still running), "NULL" or "path" (rv returned)
    jpsFound,   \* outcome of the astar_compute call, kept for the comparison
    jpsCost     \* with astar_unopt_compute on the same input

vars == <<boundX, boundY, grid, start, end, algo, pc, open, closed, gScores,
          cameFrom, solLength, rv, target, cur, result, jpsFound, jpsCost>>

input == <<boundX, boundY, grid, start, end>>

-----------------------------------------------------------------------------
(* Bounds of the model *)

\* grids of every shape with at most MaxCells cells are run exhaustively;
\* of the shapes one cell wide, those with at most MaxLine cells
MaxCells == 8
MaxLine == 4

-----------------------------------------------------------------------------
(* C integer arithmetic: / and % truncate toward zero *)

Abs(a) == IF a < 0 THEN -a ELSE a

CDiv(a, b) ==
    LET q == Abs(a) \div Abs(b)
    IN  IF (a < 0) = (b < 0) THEN q ELSE -q

CRem(a, b) == a - b * CDiv(a, b)

(* Costs a + b*sqrt(2) *)

Zero == <<0, 0>>
Whole(k) == <<k, 0>>
Diag(k) == <<0, k>>
Plus(p, q) == <<p[1] + q[1], p[2] + q[2]>>
Minus(p, q) == <<p[1] - q[1], p[2] - q[2]>>

\* a + b*sqrt(2) < 0
Negative(a, b) ==
    IF a <= 0 /\ b <= 0 THEN ~(a = 0 /\ b = 0)
    ELSE IF a >= 0 /\ b >= 0 THEN FALSE
    ELSE IF a < 0 THEN a * a > 2 * b * b
    ELSE a * a < 2 * b * b

Less(p, q) == Negative(p[1] - q[1], p[2] - q[2])

Isqrt(n) == CHOOSE k \in 0..n : k * k <= n /\ (k + 1) * (k + 1) > n

\* conversion of a non-negative double to int: truncation
Trunc(p) == Whole(p[1] + Isqrt(2 * p[2] * p[2]))

-----------------------------------------------------------------------------
(* Distance metrics *)

Max(a, b) == IF a >= b THEN a ELSE b

chebyshevDistance(s, e) == Whole(Max(Abs(s[1] - e[1]), Abs(s[2] - e[2])))

estimateDistance(s, e) == chebyshevDistance(s, e)

\* sqrt(dx^2 + dy^2) is k*sqrt(2) when |dx| = |dy| = k, the only case that
\* arises: jump returns nodes on a ray from its start, and a neighbour is one
\* step away.  The CHOOSE has no value (and TLC stops) for any other pair.
preciseDistance(s, e) ==
    IF s[1] - e[1] # 0 /\ s[2] - e[2] # 0
    THEN Diag(CHOOSE k \in {Abs(s[1] - e[1])} : k = Abs(s[2] - e[2]))
    ELSE Whole(Abs(s[1] - e[1]) + Abs(s[2] - e[2]))

-----------------------------------------------------------------------------
(* Coordinates and the grid *)

bounds == <<boundX, boundY>>

getIndex(b, c) == c[1] + c[2] * b[1]

getCoord(b, c) == <<CRem(c, b[1]), CDiv(c, b[1])>>

contained(b, c) == c[1] >= 0 /\ c[2] >= 0 /\ c[1] < b[1] /\ c[2] < b[2]

isEnterable(c) == contained(bounds, c) /\ grid[getIndex(bounds, c)] # 0

directionIsDiagonal(dir) == CRem(dir, 2) # 0

adjustInDirection(c, dir) ==
    LET d == (dir + 65536) % 8
    IN  CASE d = 0 -> <<c[1], c[2] - 1>>
          [] d = 1 -> <<c[1] + 1, c[2] - 1>>
          [] d = 2 -> <<c[1] + 1, c[2]>>
          [] d = 3 -> <<c[1] + 1, c[2] + 1>>
          [] d = 4 -> <<c[1], c[2] + 1>>
          [] d = 5 -> <<c[1] - 1, c[2] + 1>>
          [] d = 6 -> <<c[1] - 1, c[2]>>
          [] d = 7 -> <<c[1] - 1, c[2] - 1>>

implies(a, b) == IF a THEN b ELSE TRUE

ENTERABLE(coord, dir, n) == isEnterable(adjustInDirection(coord, dir + n))

\* forced neighbours looked for on one side only
hasForcedNeighboursOneSide(coord, dir) ==
    IF directionIsDiagonal(dir)
    THEN ~implies(ENTERABLE(coord, dir, -2), ENTERABLE(coord, dir, -3))
    ELSE ~implies(ENTERABLE(coord, dir, -1), ENTERABLE(coord, dir, -2))

hasForcedNeighbours(coord, dir) ==
    IF directionIsDiagonal(dir)
    THEN \/ ~implies(ENTERABLE(coord, dir, -2), ENTERABLE(coord, dir, -3))
         \/ ~implies(ENTERABLE(coord, dir, 2), ENTERABLE(coord, dir, 3))
    ELSE \/ ~implies(ENTERABLE(coord, dir, -1), ENTERABLE(coord, dir, -2))
         \/ ~implies(ENTERABLE(coord, dir, 1), ENTERABLE(coord, dir, 2))

RECURSIVE jump(_, _)
jump(dir, from) ==
    LET coord == adjustInDirection(getCoord(bounds, from), dir)
        node == getIndex(bounds, coord)
    IN  IF ~isEnterable(coord) THEN -1
        ELSE IF node = end THEN node
        ELSE IF hasForcedNeighbours(coord, dir) THEN node
        ELSE IF directionIsDiagonal(dir) /\ jump(dir - 1, node) >= 0 THEN node
        ELSE IF directionIsDiagonal(dir) /\ jump(dir + 1, node) >= 0 THEN node
        ELSE jump(dir, node)

directionOfMove(to, from) ==
    IF from[1] = to[1]
    THEN IF from[2] = to[2] THEN -1 ELSE IF from[2] < to[2] THEN 4 ELSE 0
    ELSE IF from[1] < to[1]
    THEN IF from[2] = to[2] THEN 2 ELSE IF from[2] < to[2] THEN 3 ELSE 1
    ELSE IF from[2] = to[2] THEN 6 ELSE IF from[2] < to[2] THEN 5 ELSE 7

directionWeCameFrom(node, nodeFrom) ==
    IF nodeFrom = -1 THEN -1
    ELSE directionOfMove(getCoord(bounds, node), getCoord(bounds, nodeFrom))

isOptimalTurn(dir, dirFrom) ==
    IF dirFrom = -1 THEN TRUE
    ELSE IF dirFrom = dir THEN TRUE
    ELSE IF directionIsDiagonal(dirFrom)
    THEN \/ (dirFrom + 7) % 8 = dir
         \/ (dirFrom + 6) % 8 = dir
         \/ (dirFrom + 1) % 8 = dir
         \/ (dirFrom + 2) % 8 = dir
    ELSE \/ (dirFrom + 7) % 8 = dir
         \/ (dirFrom + 1) % 8 = dir

-----------------------------------------------------------------------------
(* The indexed priority queue: node -> priority *)

EmptyFn == [x \in {} |-> 0]

Upd(f, k, v) == [x \in DOMAIN f \cup {k} |-> IF x = k THEN v ELSE f[x]]

createQueue == EmptyFn

insert(q, v, p) == Upd(q, v, p)

exists(q, v) == v \in DOMAIN q

priorityOf(q, v) == q[v]

changePriority(q, v, p) == [q EXCEPT ![v] = p]

\* the entries findMin may return: those of least priority
findMin(q) == {v \in DOMAIN q : \A w \in DOMAIN q : ~Less(q[w], q[v])}

\* deleteMin removes the entry findMin returned
deleteMin(q, v) == [x \in DOMAIN q \ {v} |-> q[x]]

-----------------------------------------------------------------------------
(* astar_compute and astar_unopt_compute *)

size == boundX * boundY

startCoord == getCoord(bounds, start)

endCoord == getCoord(bounds, end)

\* the first early return alone
invalidQueryIndexOnly == start >= size \/ start < 0 \/ end >= size \/ end < 0

\* the two early returns; the coordinates are computed only after the first
invalidQuery ==
    IF start >= size \/ start < 0 \/ end >= size \/ end < 0 THEN TRUE
    ELSE ~contained(bounds, startCoord) \/ ~contained(bounds, endCoord)

\* int oldGScore = gScores[newNode];
\* priorityOf (open, newNode) - oldGScore + gScores[newNode]
decreasedPriority(oldPriority, oldG, newG) ==
    Plus(Minus(oldPriority, Trunc(oldG)), newG)

\* if (closed[newNode]) continue;
isClosedNever(st, newNode) == FALSE
isClosed(st, newNode) == st.closed[newNode] # 0

\* the body of the successor loop once newNode is known to be in the grid;
\* st is the scratch state [open, closed, gScores, cameFrom]
relax(st, node, newNode) ==
    LET nodeCoord == getCoord(bounds, node)
        newCoord == getCoord(bounds, newNode)
        tentative == Plus(st.gScores[node], preciseDistance(nodeCoord, newCoord))
    IN  IF isClosed(st, newNode) THEN st
        ELSE IF ~exists(st.open, newNode)
        THEN [st EXCEPT
                !.cameFrom = Upd(@, newNode, node),
                !.gScores = Upd(@, newNode, tentative),
                !.open = insert(@, newNode,
                                Plus(tentative, estimateDistance(newCoord, endCoord)))]
        ELSE IF Less(tentative, st.gScores[newNode])
        THEN [st EXCEPT
                !.cameFrom = Upd(@, newNode, node),
                !.gScores = Upd(@, newNode, tentative),
                !.open = changePriority(@, newNode,
                            decreasedPriority(priorityOf(st.open, newNode),
                                              st.gScores[newNode], tentative))]
        ELSE st

\* one pass of the loop over i in astar_compute
jpsSuccessor(st, node, i) ==
    LET from == directionWeCameFrom(node, st.cameFrom[node])
    IN  IF ~isOptimalTurn(i, from) THEN st
        ELSE LET newNode == jump(i, node)
                 newCoord == getCoord(bounds, newNode)
             IN  IF ~contained(bounds, newCoord) THEN st
                 ELSE relax(st, node, newNode)

\* one pass of the loop over i in astar_unopt_compute
unoptSuccessor(st, node, i) ==
    LET newCoord == adjustInDirection(getCoord(bounds, node), i)
        newNode == getIndex(bounds, newCoord)
    IN  IF ~contained(bounds, newCoord) \/ grid[newNode] = 0 THEN st
        ELSE relax(st, node, newNode)

\* for (int i = 0; i < 8; i++)
RECURSIVE successors(_, _, _)
successors(st, node, i) ==
    IF i >= 8 THEN st
    ELSE successors(IF algo = "jps" THEN jpsSuccessor(st, node, i)
                                    ELSE unoptSuccessor(st, node, i),
                    node, i + 1)

\* the node marked closed and left in the queue
closeNodeKeepInQueue(st, node) == [st EXCEPT !.closed = [@ EXCEPT ![node] = 1]]

\* deleteMin (open); closed[node] = 1;
closeNode(st, node) ==
    [st EXCEPT !.open = deleteMin(@, node), !.closed = [@ EXCEPT ![node] = 1]]

scratch == [open |-> open, closed |-> closed, gScores |-> gScores, cameFrom |-> cameFrom]

\* (*solLen)--; // don't include the starting tile
returnedLengthWithStart(n) == n
returnedLength(n) == n - 1

\* a walk that goes from jump point to jump point without the cells between
nextNodeAtTarget(came, tgt, node) ==
    IF node = tgt THEN [node |-> node, target |-> came[tgt]]
    ELSE [node |-> tgt, target |-> came[tgt]]

\* one step of the interpolation: the new node and the new target
nextNodeInSolution(came, tgt, node) ==
    LET c == getCoord(bounds, node)
        cTarget == getCoord(bounds, tgt)
        x == IF c[1] < cTarget[1] THEN c[1] + 1
             ELSE IF c[1] > cTarget[1] THEN c[1] - 1 ELSE c[1]
        y == IF c[2] < cTarget[2] THEN c[2] + 1
             ELSE IF c[2] > cTarget[2] THEN c[2] - 1 ELSE c[2]
        next == getIndex(bounds, <<x, y>>)
    IN  [node |-> next, target |-> IF next = tgt THEN came[tgt] ELSE tgt]

-----------------------------------------------------------------------------
(* Cost of a sequence of cells: 1 per orthogonal step, sqrt(2) per diagonal *)

stepCost(a, b) ==
    LET ca == getCoord(bounds, a)
        cb == getCoord(bounds, b)
    IN  IF ca[1] # cb[1] /\ ca[2] # cb[2] THEN Diag(1) ELSE Whole(1)

RECURSIVE cellsCost(_, _)
cellsCost(cells, k) ==
    IF k >= Len(cells) THEN Zero
    ELSE Plus(stepCost(cells[k], cells[k + 1]), cellsCost(cells, k + 1))

\* the returned cells, goal first, start excluded
path == SubSeq(rv, 1, solLength)

\* rv holds the start in the entry after the returned ones
pathCost == cellsCost(rv, 1)

-----------------------------------------------------------------------------
(* The queries the model runs *)

Cells(w, h) == 0 .. (w * h - 1)

\* the arguments of the call
Query(w, h, g, s, e) ==
    /\ boundX' = w
    /\ boundY' = h
    /\ grid' = g
    /\ start' = s
    /\ end' = e

\* the shapes run exhaustively
Shapes ==
    {b \in (1..MaxCells) \X (1..MaxCells) :
        /\ b[1] * b[2] <= MaxCells
        /\ (b[1] = 1 \/ b[2] = 1) => b[1] * b[2] <= MaxLine}

\* every grid of every shape, blocked cells anywhere; start and end range
\* over the cells and over the indices just outside them
SmallQuery ==
    \E b \in Shapes :
        \E g \in [Cells(b[1], b[2]) -> {0, 1}] :
            \E s \in -1..(b[1] * b[2]), e \in -1..(b[1] * b[2]) :
                Query(b[1], b[2], g, s, e)

\* bounds with a side that is zero or negative; there is no grid to read
BadBoundsQuery ==
    \E w \in -2..1, h \in -2..1 :
        /\ w <= 0 \/ h <= 0
        /\ \E s \in -1..4, e \in -1..4 : Query(w, h, [c \in {} |-> 0], s, e)

\* a grid given by its rows, top to bottom, 1 walkable and 0 blocked
GridOfRows(rows) ==
    LET w == Len(rows[1])
    IN  [c \in Cells(w, Len(rows)) |-> rows[(c \div w) + 1][(c % w) + 1]]

\* every start and end inside the grid given by rows
ScenarioQuery(rows) ==
    LET w == Len(rows[1])
        h == Len(rows)
    IN  \E s \in Cells(w, h), e \in Cells(w, h) : Query(w, h, GridOfRows(rows), s, e)

\* the 5x5 grid of scenario S1: two walls with a gap at opposite ends
S1Rows ==
    << <<1, 1, 1, 1, 1>>,
       <<0, 0, 0, 0, 1>>,
       <<1, 1, 1, 1, 1>>,
       <<1, 0, 0, 0, 0>>,
       <<1, 1, 1, 1, 1>> >>

\* 4x5: a corner of three blocked cells in the middle
CornerRows ==
    << <<1, 1, 1, 1>>,
       <<1, 1, 1, 1>>,
       <<1, 1, 0, 1>>,
       <<1, 0, 0, 1>>,
       <<1, 1, 1, 1>> >>

\* 5x4: a wall of two blocked cells
WallRows ==
    << <<1, 1, 1, 1, 1>>,
       <<1, 0, 1, 1, 1>>,
       <<1, 0, 1, 1, 1>>,
       <<1, 1, 1, 1, 1>> >>

AnyQuery ==
    \/ SmallQuery
    \/ BadBoundsQuery
    \/ ScenarioQuery(S1Rows)
    \/ ScenarioQuery(CornerRows)
    \/ ScenarioQuery(WallRows)

-----------------------------------------------------------------------------
(* The state machine *)

\* before the call: no arguments yet
Init ==
    /\ boundX = 0
    /\ boundY = 0
    /\ grid = EmptyFn
    /\ start = 0
    /\ end = 0
    /\ algo = "jps"
    /\ pc = "idle"
    /\ open = EmptyFn
    /\ closed = EmptyFn
    /\ gScores = EmptyFn
    /\ cameFrom = EmptyFn
    /\ solLength = 0
    /\ rv = <<>>
    /\ target = -1
    /\ cur = -1
    /\ result = "none"
    /\ jpsFound = FALSE
    /\ jpsCost = Zero

\* the caller hands a grid, its bounds, a start and an end to astar_compute
Call ==
    /\ pc = "idle"
    /\ AnyQuery
    /\ pc' = "call"
    /\ UNCHANGED <<algo, open, closed, gScores, cameFrom, solLength, rv, target,
                   cur, result, jpsFound, jpsCost>>

\* the early returns: start or end outside [0, size), or outside the bounds
Reject ==
    /\ pc = "call"
    /\ invalidQuery
    /\ solLength' = -1
    /\ result' = "NULL"
    /\ pc' = "done"
    /\ UNCHANGED <<input, algo, open, closed, gScores, cameFrom, rv, target, cur,
                   jpsFound, jpsCost>>

\* the scratch arrays, and start inserted into open
Begin ==
    /\ pc = "call"
    /\ ~invalidQuery
    /\ solLength' = -1
    /\ closed' = [n \in Cells(boundX, boundY) |-> 0]
    /\ gScores' = Upd(EmptyFn, start, Zero)
    /\ cameFrom' = Upd(EmptyFn, start, -1)
    /\ open' = insert(createQueue, start, estimateDistance(startCoord, endCoord))
    /\ pc' = "loop"
    /\ UNCHANGED <<input, algo, rv, target, cur, result, jpsFound, jpsCost>>

\* while (open->size) fails: no path
Exhausted ==
    /\ pc = "loop"
    /\ DOMAIN open = {}
    /\ result' = "NULL"
    /\ pc' = "done"
    /\ UNCHANGED <<input, algo, open, closed, gScores, cameFrom, solLength, rv,
                   target, cur, jpsFound, jpsCost>>

\* the least node is at the goal: recordSolution starts
ReachGoal ==
    /\ pc = "loop"
    /\ \E node \in findMin(open) :
          /\ getCoord(bounds, node) = endCoord
          /\ solLength' = 0
          /\ target' = node
          /\ cur' = node
          /\ rv' = <<>>
    /\ pc' = "record"
    /\ UNCHANGED <<input, algo, open, closed, gScores, cameFrom, result,
                   jpsFound, jpsCost>>

\* one pass of the main loop on a node that is not the goal
Expand ==
    /\ pc = "loop"
    /\ \E node \in findMin(open) :
          /\ getCoord(bounds, node) # endCoord
          /\ LET st == successors(closeNode(scratch, node), node, 0)
             IN  /\ open' = st.open
                 /\ closed' = st.closed
                 /\ gScores' = st.gScores
                 /\ cameFrom' = st.cameFrom
    /\ UNCHANGED <<input, algo, pc, solLength, rv, target, cur, result,
                   jpsFound, jpsCost>>

\* one pass of the loop of recordSolution; the last one drops the start
\* from the length and returns rv
RecordStep ==
    /\ pc = "record"
    /\ LET r == nextNodeInSolution(cameFrom, target, cur)
       IN  /\ cur' = r.node
           /\ target' = r.target
           /\ rv' = Append(rv, r.node)
           /\ IF r.node = start
              THEN /\ solLength' = returnedLength(solLength + 1)
                   /\ result' = "path"
                   /\ pc' = "done"
              ELSE /\ solLength' = solLength + 1
                   /\ UNCHANGED <<result, pc>>
    /\ UNCHANGED <<input, algo, open, closed, gScores, cameFrom, jpsFound, jpsCost>>

\* the same input handed to astar_unopt_compute, remembering what
\* astar_compute returned
CallUnopt ==
    /\ pc = "done"
    /\ algo = "jps"
    /\ algo' = "unopt"
    /\ jpsFound' = (result = "path")
    /\ jpsCost' = IF result = "path" THEN pathCost ELSE Zero
    /\ pc' = "call"
    /\ open' = EmptyFn
    /\ closed' = EmptyFn
    /\ gScores' = EmptyFn
    /\ cameFrom' = EmptyFn
    /\ solLength' = 0
    /\ rv' = <<>>
    /\ target' = -1
    /\ cur' = -1
    /\ result' = "none"
    /\ UNCHANGED input

\* one call of astar_compute
Next ==
    \/ Call
    \/ Reject
    \/ Begin
    \/ Exhausted
    \/ ReachGoal
    \/ Expand
    \/ RecordStep

Spec == Init /\ [][Next]_vars

\* astar_compute, then astar_unopt_compute on the same input
NextBoth ==
    \/ Call
    \/ Reject
    \/ Begin
    \/ Exhausted
    \/ ReachGoal
    \/ Expand
    \/ RecordStep
    \/ CallUnopt

SpecBoth == Init /\ [][NextBoth]_vars

-----------------------------------------------------------------------------
(* Properties *)

Returned == pc = "done" /\ algo = "jps"

coordOf(n) == getCoord(bounds, n)

\* n is the index of a cell of the grid
InGrid(n) == n \in Cells(boundX, boundY) /\ contained(bounds, coordOf(n))

Adjacent(a, b) ==
    /\ Abs(coordOf(a)[1] - coordOf(b)[1]) <= 1
    /\ Abs(coordOf(a)[2] - coordOf(b)[2]) <= 1

Occurrences(seq, v) == Cardinality({k \in 1..Len(seq) : seq[k] = v})

(* C2  Validity: in a returned path consecutive cells differ by at most 1 in
   x and in y, and every cell is in bounds and walkable, the cells
   interpolated between jump points included. *)
Validity ==
    result = "path" =>
        /\ \A k \in 1..solLength : InGrid(path[k]) /\ grid[path[k]] # 0
        /\ \A k \in 1..(solLength - 1) : Adjacent(path[k], path[k + 1])

\* a returned path with a diagonal step and with a cell that was never a
\* jump point (it has no cameFrom entry)
ValidityWitness ==
    /\ result = "path"
    /\ solLength >= 3
    /\ \E k \in 1..solLength : path[k] \notin DOMAIN cameFrom
    /\ \E k \in 1..(solLength - 1) : stepCost(path[k], path[k + 1]) = Diag(1)

(* C3 as claimed  Start/goal convention: a returned path holds the goal
   exactly once, as its first element, and does not hold the start.  (Stated
   for a walkable start, which is enough to refute it.) *)
GoalFirstAlways ==
    result = "path" /\ grid[start] # 0 =>
        /\ solLength >= 1
        /\ path[1] = end
        /\ Occurrences(path, end) = 1
        /\ Occurrences(path, start) = 0

(* C3 amended  When start and goal differ, a returned path holds the goal
   exactly once, as its first element, and does not hold the start; when
   they are the same cell the returned path is empty. *)
GoalFirst ==
    result = "path" =>
        IF start = end THEN solLength = 0
        ELSE /\ solLength >= 1
             /\ path[1] = end
             /\ Occurrences(path, end) = 1
             /\ Occurrences(path, start) = 0

GoalFirstWitness == result = "path" /\ start # end /\ solLength >= 2

(* C5  Invalid query: with start or goal outside [0, W*H), or W <= 0 or
   H <= 0, the call returns NULL with *solLength = -1 and nothing is ever
   inserted into open; and whenever NULL is returned *solLength is -1. *)
InvalidInput ==
    \/ boundX <= 0
    \/ boundY <= 0
    \/ start \notin Cells(boundX, boundY)
    \/ end \notin Cells(boundX, boundY)

InvalidQueryRejected ==
    /\ InvalidInput => DOMAIN open = {} /\ pc \in {"idle", "call", "done"}
    /\ InvalidInput /\ pc = "done" => result = "NULL" /\ solLength = -1
    /\ pc = "done" /\ result = "NULL" => solLength = -1

\* both bounds negative, so that W*H is positive and the indices pass the
\* first test
InvalidQueryWitness ==
    /\ pc = "done"
    /\ boundX < 0
    /\ boundY < 0
    /\ start \in 0..(size - 1)
    /\ end \in 0..(size - 1)
    /\ result = "NULL"

(* C6  An unwalkable endpoint never yields a path: an in-bounds query whose
   start cell or goal cell is blocked returns NULL. *)
UnwalkableEndpointNoPath ==
    Returned /\ ~InvalidInput /\ (grid[start] = 0 \/ grid[end] = 0) => result = "NULL"

(* The reference: least cost of a walk of 8-directional steps over walkable
   cells, by relaxation to a fixed point; defined on the cells reachable
   from a walkable start *)

walkableNeighbours(n) ==
    {getIndex(bounds, c) :
        c \in {a \in {adjustInDirection(coordOf(n), d) : d \in 0..7} : isEnterable(a)}}

MinCost(costs) == CHOOSE c \in costs : \A o \in costs : ~Less(o, c)

RECURSIVE shortest(_)
shortest(dist) ==
    LET reached == DOMAIN dist \cup UNION {walkableNeighbours(m) : m \in DOMAIN dist}
        through(n) == {Plus(dist[m], stepCost(m, n)) :
                          m \in {k \in DOMAIN dist : n \in walkableNeighbours(k)}}
        best(n) == MinCost(through(n) \cup (IF n \in DOMAIN dist THEN {dist[n]} ELSE {}))
        next == [n \in reached |-> best(n)]
    IN  IF next = dist THEN dist ELSE shortest(next)

referenceCosts == shortest([n \in {start} |-> Zero])

Reachable ==
    /\ ~InvalidInput
    /\ grid[start] # 0
    /\ end \in DOMAIN referenceCosts

(* C1  Optimality: whenever the goal is reachable from the start by
   8-directional steps over walkable cells, astar_compute returns a path
   whose cost (1 per orthogonal step, sqrt(2) per diagonal step) is the
   least cost found by the reference search. *)
Optimality ==
    Returned /\ Reachable =>
        result = "path" /\ pathCost = referenceCosts[end]

S1Query ==
    /\ pc # "idle"
    /\ boundX = 5
    /\ boundY = 5
    /\ grid = GridOfRows(S1Rows)
    /\ start = getIndex(bounds, <<0, 0>>)
    /\ end = getIndex(bounds, <<4, 4>>)

(* C7 as claimed  Scenario S1: from (0,0) to (4,4) the returned path costs
   4 + 2*sqrt(2) and has 8 cells, the start excluded. *)
S1AsClaimed ==
    S1Query /\ Returned =>
        result = "path" /\ pathCost = <<4, 2>> /\ solLength = 8

(* C7 amended  Scenario S1: from (0,0) to (4,4) the returned path costs
   8 + 4*sqrt(2) and has 12 cells, the start excluded. *)
S1Result ==
    S1Query /\ Returned =>
        result = "path" /\ pathCost = <<8, 4>> /\ solLength = 12

S1Witness == S1Query /\ Returned /\ result = "path"

(* C8  Equivalence with naive A*: astar_compute and astar_unopt_compute
   agree on whether a path exists and, when one exists, on its cost. *)
SameAsUnopt ==
    pc = "done" /\ algo = "unopt" =>
        /\ jpsFound = (result = "path")
        /\ jpsFound => jpsCost = pathCost

(* C9  Open-queue priority invariant: in the search loop of astar_compute
   every node n in open has priority gScores[n] + h(n, goal), h the
   Chebyshev distance, also after a decrease.  (Stated for walkable start
   and goal, which is enough to refute it.) *)
PriorityIsGPlusH ==
    pc = "loop" /\ algo = "jps" /\ grid[start] # 0 /\ grid[end] # 0 =>
        \A n \in DOMAIN open :
            open[n] = Plus(gScores[n], chebyshevDistance(coordOf(n), endCoord))

closedNodes == {n \in DOMAIN closed : closed[n] # 0}

\* following cameFrom from n reaches start, whose cameFrom is -1, without
\* coming to a node in seen
RECURSIVE leadsToStart(_, _)
leadsToStart(n, seen) ==
    IF n \notin DOMAIN cameFrom \/ n \in seen THEN FALSE
    ELSE IF n = start THEN cameFrom[n] = -1
    ELSE leadsToStart(cameFrom[n], seen \cup {n})

CameFromIsTree ==
    /\ \A n \in DOMAIN cameFrom : leadsToStart(n, {})
    /\ \A n \in closedNodes : n \notin DOMAIN open

\* a step sets cameFrom only to a closed node, and leaves closed nodes alone
ClosedIsFinal ==
    /\ \A n \in DOMAIN cameFrom' :
          (n \notin DOMAIN cameFrom \/ cameFrom'[n] # cameFrom[n]) /\ n # start
              => cameFrom'[n] \in DOMAIN closed' /\ closed'[cameFrom'[n]] # 0
    /\ \A n \in closedNodes :
          /\ n \notin DOMAIN open'
          /\ closed'[n] # 0
          /\ cameFrom'[n] = cameFrom[n]
          /\ gScores'[n] = gScores[n]

(* C10  cameFrom tree invariant: from every node ever inserted into open the
   cameFrom links lead to start (whose cameFrom is -1) without visiting a
   node twice; cameFrom is only ever set to a closed node; a closed node is
   never inserted into open again and its cameFrom and gScore never change. *)
CameFromTree == [](CameFromIsTree) /\ [][ClosedIsFinal]_vars

\* a chain of two links, and a node in open whose parent was replaced by a
\* decrease (its parent was closed after another closed node that reaches it)
CameFromTreeWitness ==
    /\ pc = "loop"
    /\ Cardinality(closedNodes) >= 3
    /\ \E n \in DOMAIN open :
          /\ cameFrom[n] # start
          /\ cameFrom[cameFrom[n]] # start

\* cells left to cross and jump points left to visit on the walk of
\* recordSolution from node cur towards tgt and on to the start
RECURSIVE walkLeft(_, _)
walkLeft(node, tgt) ==
    IF tgt = -1 THEN 0
    ELSE chebyshevDistance(coordOf(node), coordOf(tgt))[1] + 1
            + walkLeft(tgt, cameFrom[tgt])

\* what is left of the call: the phase, and within the phase the nodes not
\* yet closed (main loop) or the rest of the walk (recordSolution)
Phase ==
    CASE pc = "idle" -> 4
      [] pc = "call" -> 3
      [] pc = "loop" -> 2
      [] pc = "record" -> 1
      [] pc = "done" -> 0

Left ==
    CASE pc = "loop" -> Cardinality(DOMAIN closed \ closedNodes)
      [] pc = "record" -> walkLeft(cur, target)
      [] OTHER -> 0

\* a pass of a loop is possible and is no repetition of the pass before: the
\* queue is empty or has a least entry, a least entry is not closed yet (the
\* pass closes it), and the walk has a target with a cameFrom entry (the pass
\* appends a cell)
CanStep ==
    /\ pc = "loop" =>
          \/ DOMAIN open = {}
          \/ findMin(open) # {} /\ \A n \in findMin(open) : closed[n] = 0
    /\ pc = "record" => target \in DOMAIN cameFrom

(* C4  Termination: a call of astar_compute returns.  Every pass of the
   main loop closes a node that was not closed, every pass of the walk of
   recordSolution shortens what is left of the walk to the start, so the
   pair <<Phase, Left>> of naturals decreases lexicographically with every
   step; and until the call has returned a pass is possible and changes the
   state.  (The jumps of an expansion are evaluated within the pass: an
   endless jump recursion would leave the pass without a value.) *)
Termination ==
    /\ [][Phase' < Phase \/ (Phase' = Phase /\ Left' < Left /\ Left' >= 0)]_vars
    /\ [](CanStep)

\* a return after a search that closed nodes and a walk that crossed cells
TerminationWitness ==
    /\ pc = "done"
    /\ result = "path"
    /\ Cardinality(closedNodes) >= 3
    /\ solLength >= 4

====
